---- MODULE Spec2Model ----
(***************************************************************************)
(* Verlet cloth simulation of src/game.cpp: Game::Init and                 *)
(* Game::Simulation over the Point grid and the structure-of-arrays copy.  *)
(*                                                                         *)
(* Numbers.  A C float is modelled as an integer count of 1/Unit, or as    *)
(* the single value NonFinite, which stands for every infinity and NaN.    *)
(* Sums and differences are exact; products, quotients and square roots    *)
(* are truncated to the grid of 1/Unit; a magnitude above MaxFloat         *)
(* overflows to NonFinite, and NonFinite absorbs every operation.  The     *)
(* program never divides by a value that can be infinite and never orders  *)
(* two non-finite values, so one absorbing value is enough.                *)
(***************************************************************************)
EXTENDS Integers, Sequences, FiniteSets

\* ------------------------------------------------------------- bounds

\* GRIDSIZE is 4 * GridQuads: the SIMD loop needs a multiple of four.
GridQuads == 1
\* Number of Game::Tick calls (each one Game::Simulation call) explored.
MaxTicks == 2

\* ------------------------------------------------------------ numbers

Unit == 64 * 64
MaxFloat == 64 * Unit * 1024
NonFinite == MaxFloat + 1

\* The decimal literal n/d on the grid of 1/Unit, rounded to nearest.
Dec(n, d) == (2 * n * Unit + d) \div (2 * d)

Abs(a) == IF a < 0 THEN -a ELSE a
Sgn(a) == IF a < 0 THEN -1 ELSE 1
IsFinite(a) == a # NonFinite
Clamp(a) == IF Abs(a) > MaxFloat THEN NonFinite ELSE a

FAdd(a, b) == IF IsFinite(a) /\ IsFinite(b) THEN Clamp(a + b) ELSE NonFinite
FNeg(a) == IF IsFinite(a) THEN -a ELSE NonFinite
FSub(a, b) == FAdd(a, FNeg(b))

\* |a| * |b| / Unit without leaving 32 bits: a = ah*Unit + al, b = bh*Unit + bl.
MulMag(A, B) ==
    LET ah == A \div Unit
        al == A % Unit
        bh == B \div Unit
        bl == B % Unit
    IN  IF ah > 0 /\ bh > (MaxFloat \div Unit) \div ah
        THEN NonFinite
        ELSE Clamp(ah * bh * Unit + ah * bl + al * bh + (al * bl) \div Unit)

FMul(a, b) ==
    IF IsFinite(a) /\ IsFinite(b)
    THEN LET m == MulMag(Abs(a), Abs(b))
         IN  IF IsFinite(m) THEN Sgn(a) * Sgn(b) * m ELSE NonFinite
    ELSE NonFinite

\* |a| * Unit / |b|: a = q*b + r.
DivMag(A, B) ==
    LET q == A \div B
        r == A % B
    IN  IF q > MaxFloat \div Unit
        THEN NonFinite
        ELSE IF B <= MaxFloat \div Unit
             THEN Clamp(q * Unit + (r * Unit) \div B)
             ELSE Clamp(q * Unit + r \div (B \div Unit))

FDiv(a, b) ==
    IF IsFinite(a) /\ IsFinite(b) /\ b # 0
    THEN LET m == DivMag(Abs(a), Abs(b))
         IN  IF IsFinite(m) THEN Sgn(a) * Sgn(b) * m ELSE NonFinite
    ELSE NonFinite

\* r*r <= v*Unit, with r = rh*Unit + rl.
SqLe(r, v) ==
    LET rh == r \div Unit
        rl == r % Unit
        q  == rh * rh * Unit + 2 * rh * rl + (rl * rl) \div Unit
        m  == (rl * rl) % Unit
    IN  q < v \/ (q = v /\ m = 0)

RECURSIVE SqrtSearch(_, _, _)
SqrtSearch(lo, hi, v) ==
    IF lo >= hi
    THEN lo
    ELSE LET mid == (lo + hi + 1) \div 2
         IN  IF SqLe(mid, v) THEN SqrtSearch(mid, hi, v) ELSE SqrtSearch(lo, mid - 1, v)

\* sqrtf: the largest r on the grid with r*r <= v.
FSqrt(v) ==
    IF IsFinite(v) /\ v >= 0 THEN SqrtSearch(0, 1024 * 1024, v) ELSE NonFinite

\* float2 and its operators.
F2(a, b) == [x |-> a, y |-> b]
V2Add(p, q) == F2(FAdd(p.x, q.x), FAdd(p.y, q.y))
V2Sub(p, q) == F2(FSub(p.x, q.x), FSub(p.y, q.y))
V2Scale(s, p) == F2(FMul(s, p.x), FMul(s, p.y))
Length(p) == FSqrt(FAdd(FMul(p.x, p.x), FMul(p.y, p.y)))

\* ------------------------------------------------- program constants

GRIDSIZE == 4 * GridQuads
\* Screen size of the template (precomp.h); only the seeding formula uses it.
SCRWIDTH == 112
SCRHEIGHT == 188

Points == 0 .. GRIDSIZE * GRIDSIZE - 1
Links == 0 .. 3
\* Point& grid( x, y ) { return pointGrid[x + y * GRIDSIZE]; }
grid(x, y) == x + y * GRIDSIZE
XOf(idx) == idx % GRIDSIZE
YOf(idx) == idx \div GRIDSIZE

xoffset == <<1, -1, 0, 0>>
yoffset == <<0, 0, 1, -1>>
\* grid( x + xoffset[c], y + yoffset[c] ): the array element the expression
\* names; the coordinates are not range-checked by the program.
NeighbourX(x, c) == x + xoffset[c + 1]
NeighbourY(y, c) == y + yoffset[c + 1]
InGrid(x, y) == x \in 0 .. GRIDSIZE - 1 /\ y \in 0 .. GRIDSIZE - 1

gravity == Dec(3, 1000)
magic_chance == Dec(3, 100)
half == Dec(5, 10)
Slack == Dec(115, 100)
MagicStart == Dec(11, 100)
MagicStep == Dec(2, 10000)
WindBase == Dec(2, 100)
WindY == Dec(12, 100)
WindDraw == 10 * Unit
Jitter == 2 * Unit
SubSteps == 3
\* The pass loop one iteration short.
PassesShort == 4 - 1
Passes == 4

\* ----------------------------------------------------- random source

\* Rand( range ): one generator shared by every caller, advanced by each
\* call; the value is uniform in [0, range).
RandMod == Unit
RandMul == 1229
NextRng(r) == (r * RandMul + 1) % RandMod
\* k applications of NextRng in one jump: the pair <<a, b>> with
\* state r -> (a * r + b) % RandMod; RngJump(1) is NextRng.
RECURSIVE RngJump(_)
RngJump(k) ==
    IF k = 0 THEN <<1, 0>>
    ELSE IF k % 2 = 1
         THEN LET j == RngJump(k - 1)
              IN  <<(RandMul * j[1]) % RandMod, (RandMul * j[2] + 1) % RandMod>>
         ELSE LET h == RngJump(k \div 2)
              IN  <<(h[1] * h[1]) % RandMod, (h[1] * h[2] + h[2]) % RandMod>>
\* The generator state after k calls from state r.
RngAfter(r, k) == LET j == RngJump(k) IN (j[1] * r + j[2]) % RandMod
\* The value of the k-th call from generator state r (k = 1 is the next call).
Rand(r, k, range) == FMul((RngAfter(r, k) * Unit) \div RandMod, range)

\* Generator states at program start.
Seeds == {13, 15, 16}
\* Contents of memory the program reads before writing it (new Point[]).
Garbage == {0, NonFinite, 3 * Unit}
\* Order in which the build evaluates the arguments of one call.
EvalOrders == {"ltr", "rtl"}

\* ------------------------------------------------------------- state

VARIABLES
    pointGrid,      \* Point[GRIDSIZE * GRIDSIZE]
    pos_x, pos_y, prev_pos_x, prev_pos_y, fix_x, fix_y, is_fixed, rest,
    magic,          \* float magic
    rng,            \* state of the shared random generator
    evalOrder,      \* argument evaluation order of the build
    pc,             \* position in Game::Init / Game::Simulation
    ticks,          \* completed Simulation calls
    steps,          \* for( int steps = 0; steps < 3; steps++ )
    i,              \* for( int i = 0; i < 4; i++ )
    x, y,           \* loop counters of the loop pc names
    linknr, pointpos,
    hist            \* history of the current sub-step (not program state)

vars == <<pointGrid, pos_x, pos_y, prev_pos_x, prev_pos_y, fix_x, fix_y,
          is_fixed, rest, magic, rng, evalOrder, pc, ticks, steps, i, x, y,
          linknr, pointpos, hist>>

soa == <<pos_x, pos_y, prev_pos_x, prev_pos_y>>
soaFixed == <<fix_x, fix_y, is_fixed, rest>>
counters == <<steps, i, x, y, linknr, pointpos>>

\* A Point of new Point[...]: every field indeterminate.
GarbagePoint(g) ==
    [pos |-> F2(g, g), prev_pos |-> F2(g, g), fix |-> F2(g, g),
     fixed |-> (g # 0), restlength |-> [c \in Links |-> g]]

EmptyHist ==
    [start |-> <<>>,        \* pos and prev_pos of every point at sub-step start
     simd |-> {},           \* vectors integrated by the SIMD loop
     simdTwice |-> FALSE,   \* a vector was integrated a second time
     scalar |-> {},         \* points integrated by the scalar loop
     draws |-> [p \in Points |-> [d |-> WindDraw, wx |-> 0, wy |-> 0]],
     scalarWind |-> FALSE,  \* the scalar loop applied a wind impulse
     log |-> <<>>,          \* phases completed, in order
     substeps |-> 0,        \* sub-steps completed by the current call
     visited |-> {},        \* points the current pass has finished
     pinMoved |-> {},       \* pinned points the last re-pin had to move back
     violation |-> <<>>,    \* total violation after each pass of the sub-step
     link |-> [kind |-> "none"]]  \* the link last processed, as it was found

Init ==
    /\ \E g \in Garbage : pointGrid = [p \in Points |-> GarbagePoint(g)]
    /\ pos_x = [p \in Points |-> 0]
    /\ pos_y = [p \in Points |-> 0]
    /\ prev_pos_x = [p \in Points |-> 0]
    /\ prev_pos_y = [p \in Points |-> 0]
    /\ fix_x = [p \in Points |-> 0]
    /\ fix_y = [p \in Points |-> 0]
    /\ is_fixed = [p \in Points |-> FALSE]
    /\ rest = [k \in 0 .. 4 * GRIDSIZE * GRIDSIZE - 1 |-> 0]
    /\ magic = MagicStart
    /\ rng \in Seeds
    /\ evalOrder \in EvalOrders
    /\ pc = "init"
    /\ ticks = 0
    /\ steps = 0 /\ i = 0 /\ x = 0 /\ y = 0 /\ linknr = 0
    /\ pointpos = F2(0, 0)
    /\ hist = EmptyHist

\* ---------------------------------------------------------- Game::Init

\* Lines 72-73: the seeded position of point idx; the loop makes two Rand
\* calls per point, in row-major order.
SeedPos(r, idx) ==
    LET px == XOf(idx)
        py == YOf(idx)
    IN  F2(FAdd(FAdd(FAdd(10 * Unit,
                          FMul(px * Unit, ((SCRWIDTH - 100) \div GRIDSIZE) * Unit)),
                     FMul(py * Unit, Dec(9, 10))),
                Rand(r, 2 * idx + 1, Jitter)),
           FAdd(FAdd(10 * Unit,
                     FMul(py * Unit, ((SCRHEIGHT - 180) \div GRIDSIZE) * Unit)),
                Rand(r, 2 * idx + 2, Jitter)))

\* Lines 71-81: the first loop of Init applied to the allocated grid.
SeedGrid(g, r) ==
    [p \in Points |->
        LET s == SeedPos(r, p)
        IN  IF YOf(p) = 0
            THEN [g[p] EXCEPT !.pos = s, !.prev_pos = s, !.fixed = TRUE, !.fix = s]
            ELSE [g[p] EXCEPT !.pos = s, !.prev_pos = s, !.fixed = FALSE]]

\* Line 82: the points the rest-length loop visits.
RestLoopPoints ==
    {grid(px, py) : px \in 1 .. GRIDSIZE - 2, py \in 1 .. GRIDSIZE - 2}

\* Line 85.
RestLength(g, p, c) ==
    FMul(Length(V2Sub(g[p].pos,
                      g[grid(NeighbourX(XOf(p), c), NeighbourY(YOf(p), c))].pos)),
         Slack)

\* Lines 82-87.
InitRestLengths(g) ==
    [p \in Points |->
        IF p \in RestLoopPoints
        THEN [g[p] EXCEPT !.restlength = [c \in Links |-> RestLength(g, p, c)]]
        ELSE g[p]]

\* Lines 105-108: rest[idx + c].
RestIndex(idx, c) == idx + c

\* Lines 90-110, the rest array: the loop stores for idx = 0, 1, ... in order,
\* so an element keeps the value of the last point that writes it.
StoreRest(r, g) ==
    [k \in DOMAIN r |->
        LET writers == {idx \in Points : \E c \in Links : k = RestIndex(idx, c)}
        IN  IF writers = {}
            THEN r[k]
            ELSE LET last == CHOOSE w \in writers : \A v \in writers : v <= w
                 IN  g[last].restlength[CHOOSE c \in Links : k = RestIndex(last, c)]]

GameInit ==
    /\ pc = "init"
    /\ LET g == InitRestLengths(SeedGrid(pointGrid, rng))
       IN  /\ pointGrid' = g
           /\ pos_x' = [p \in Points |-> g[p].pos.x]
           /\ pos_y' = [p \in Points |-> g[p].pos.y]
           /\ prev_pos_x' = [p \in Points |-> g[p].prev_pos.x]
           /\ prev_pos_y' = [p \in Points |-> g[p].prev_pos.y]
           /\ fix_x' = [p \in Points |-> g[p].fix.x]
           /\ fix_y' = [p \in Points |-> g[p].fix.y]
           /\ is_fixed' = [p \in Points |-> g[p].fixed]
           /\ rest' = StoreRest(rest, g)
    /\ rng' = RngAfter(rng, 2 * GRIDSIZE * GRIDSIZE)
    /\ pc' = "idle"
    /\ UNCHANGED <<magic, evalOrder, ticks, counters, hist>>

\* ---------------------------------------------------- Game::Simulation

\* pos and prev_pos of every point, as the sub-step finds them.
Snapshot(g) == [p \in Points |-> [pos |-> g[p].pos, prev_pos |-> g[p].prev_pos]]

EnterSubStep(h, g) ==
    [h EXCEPT !.start = Snapshot(g), !.simd = {}, !.simdTwice = FALSE,
              !.scalar = {}, !.scalarWind = FALSE,
              !.draws = EmptyHist.draws, !.visited = {}, !.pinMoved = {},
              !.link = EmptyHist.link]

\* Game::Tick calls Simulation: the head of the sub-step loop, steps = 0.
Tick ==
    /\ pc = "idle"
    /\ ticks < MaxTicks
    /\ pc' = "simd"
    /\ steps' = 0 /\ x' = 0 /\ y' = 0
    /\ hist' = [EnterSubStep(hist, pointGrid) EXCEPT !.log = <<>>, !.substeps = 0]
    /\ UNCHANGED <<pointGrid, soa, soaFixed, magic, rng, evalOrder, ticks, i,
                   linknr, pointpos>>

\* Lines 168-169: bounds of the SIMD loop.
SimdRows == GRIDSIZE \div 4
\* Both loop bounds divided by the vector width.
SimdColsQuarter == GRIDSIZE \div 4
SimdCols == GRIDSIZE

\* _mm_set_ps( e3, e2, e1, e0 ): the j-th argument fills lane 4 - j.  The call
\* (1..4) of one _mm_set_ps line whose value lane k receives.
CallNo(order, k) == IF order = "ltr" THEN 4 - k ELSE k + 1

\* gravity4 added to pos_x4 as well as to pos_y4.
SimdLaneGravityX(cx, cy, px, py, d, wx, wy) ==
    LET mask == d < magic_chance
    IN  [pos_x |-> FAdd(FAdd(FAdd(cx, FSub(cx, px)), gravity), IF mask THEN wx ELSE 0),
         pos_y |-> FAdd(FAdd(FAdd(cy, FSub(cy, py)), gravity), IF mask THEN wy ELSE 0),
         prev_x |-> cx,
         prev_y |-> cy]

\* Lines 172-193 for one lane: current and previous position, the lane's draw
\* d of Rand( 10 ) and its draws wx, wy of the impulse.
SimdLane(cx, cy, px, py, d, wx, wy) ==
    LET mask == d < magic_chance
    IN  [pos_x |-> FAdd(FAdd(cx, FSub(cx, px)), IF mask THEN wx ELSE 0),
         pos_y |-> FAdd(FAdd(FAdd(cy, FSub(cy, py)), gravity), IF mask THEN wy ELSE 0),
         prev_x |-> cx,
         prev_y |-> cy]

\* The three draws of lane k of a vector integrated from generator state r.
LaneDraws(r, order, m, k) ==
    [d  |-> Rand(r, CallNo(order, k), WindDraw),
     wx |-> Rand(r, 4 + CallNo(order, k), FAdd(WindBase, m)),
     wy |-> Rand(r, 8 + CallNo(order, k), WindY)]

\* Lines 170-193: vector idx of the arrays a integrated from generator state r.
SimdVector(a, r, idx) ==
    LET lane(p) == p - 4 * idx
        in(p) == p \in 4 * idx .. 4 * idx + 3
        dr(p) == LaneDraws(r, evalOrder, magic, lane(p))
        new(p) == SimdLane(a.pos_x[p], a.pos_y[p], a.prev_pos_x[p], a.prev_pos_y[p],
                           dr(p).d, dr(p).wx, dr(p).wy)
    IN  [pos_x |-> [p \in Points |-> IF in(p) THEN new(p).pos_x ELSE a.pos_x[p]],
         pos_y |-> [p \in Points |-> IF in(p) THEN new(p).pos_y ELSE a.pos_y[p]],
         prev_pos_x |-> [p \in Points |-> IF in(p) THEN new(p).prev_x ELSE a.prev_pos_x[p]],
         prev_pos_y |-> [p \in Points |-> IF in(p) THEN new(p).prev_y ELSE a.prev_pos_y[p]]]

Arrays == [pos_x |-> pos_x, pos_y |-> pos_y,
           prev_pos_x |-> prev_pos_x, prev_pos_y |-> prev_pos_y]

\* Lines 168-195: one iteration of the SIMD loop, vector idx = x + y * GRIDSIZE.
SimdStep ==
    /\ pc = "simd"
    /\ LET idx == x + y * GRIDSIZE
           new == SimdVector(Arrays, rng, idx)
       IN  /\ pos_x' = new.pos_x
           /\ pos_y' = new.pos_y
           /\ prev_pos_x' = new.prev_pos_x
           /\ prev_pos_y' = new.prev_pos_y
           /\ hist' = [hist EXCEPT
                          !.simd = @ \cup {idx},
                          !.simdTwice = @ \/ idx \in hist.simd,
                          !.draws = [p \in Points |->
                                        IF p \in 4 * idx .. 4 * idx + 3
                                        THEN LaneDraws(rng, evalOrder, magic, p - 4 * idx)
                                        ELSE @[p]],
                          !.log = IF x = SimdCols - 1 /\ y = SimdRows - 1
                                  THEN Append(@, "simd") ELSE @]
    /\ rng' = RngAfter(rng, 12)
    /\ IF x < SimdCols - 1
       THEN x' = x + 1 /\ y' = y /\ pc' = pc
       ELSE IF y < SimdRows - 1
            THEN x' = 0 /\ y' = y + 1 /\ pc' = pc
            ELSE x' = 0 /\ y' = 0 /\ pc' = "scalar"
    /\ UNCHANGED <<pointGrid, soaFixed, magic, evalOrder, ticks, steps, i,
                   linknr, pointpos>>

\* Lines 198-201 for one point: d is the draw of Rand( 10 ), wx and wy the
\* draws of the impulse, made only when d < 0.03f.
ScalarUpdate(pt, d, wx, wy) ==
    LET curpos == pt.pos
        prevpos == pt.prev_pos
        moved == V2Add(curpos, V2Add(V2Sub(curpos, prevpos), F2(0, gravity)))
    IN  [pt EXCEPT !.pos = IF d < Dec(3, 100) THEN V2Add(moved, F2(wx, wy)) ELSE moved,
                   !.prev_pos = curpos]

\* Line 201: the draws of one point from generator state r, and the number of
\* Rand calls made.  float2( Rand(..), Rand(..) ): two arguments of one call.
ScalarDraws(r, order, m) ==
    LET d == Rand(r, 1, WindDraw)
    IN  [d |-> d,
         wx |-> Rand(r, IF order = "ltr" THEN 2 ELSE 3, FAdd(WindBase, m)),
         wy |-> Rand(r, IF order = "ltr" THEN 3 ELSE 2, WindY),
         calls |-> IF d < Dec(3, 100) THEN 3 ELSE 1]

\* Lines 197-202: one iteration of the scalar loop.
ScalarStep ==
    /\ pc = "scalar"
    /\ LET p == grid(x, y)
           dr == ScalarDraws(rng, evalOrder, magic)
       IN  /\ pointGrid' = [pointGrid EXCEPT ![p] = ScalarUpdate(@, dr.d, dr.wx, dr.wy)]
           /\ rng' = RngAfter(rng, dr.calls)
           /\ hist' = [hist EXCEPT
                          !.scalar = @ \cup {p},
                          !.scalarWind = @ \/ dr.calls = 3,
                          !.log = IF x = GRIDSIZE - 1 /\ y = GRIDSIZE - 1
                                  THEN Append(@, "scalar") ELSE @]
    /\ IF x < GRIDSIZE - 1
       THEN x' = x + 1 /\ y' = y /\ pc' = pc
       ELSE IF y < GRIDSIZE - 1
            THEN x' = 0 /\ y' = y + 1 /\ pc' = pc
            ELSE x' = 0 /\ y' = 0 /\ pc' = "copy"
    /\ UNCHANGED <<soa, soaFixed, magic, evalOrder, ticks, steps, i, linknr, pointpos>>

\* The constraint loops started at the border.
FirstInteriorZero == 1 - 1
\* Lines 219-220: bounds of the constraint loops.
FirstInterior == 1
LastInterior == GRIDSIZE - 2
InteriorPoints ==
    {grid(px, py) : px \in FirstInterior .. LastInterior,
                    py \in FirstInterior .. LastInterior}

\* Lines 207-215: the SoA positions written over the Point grid.
CopySoA(g) ==
    [p \in Points |->
        [g[p] EXCEPT !.pos = F2(pos_x[p], pos_y[p]),
                     !.prev_pos = F2(prev_pos_x[p], prev_pos_y[p])]]

\* Lines 205-215, and the head of the pass loop (i = 0, y = 1, x = 1).
CopyToGrid ==
    /\ pc = "copy"
    /\ magic' = FAdd(magic, MagicStep)
    /\ pointGrid' = CopySoA(pointGrid)
    /\ i' = 0 /\ x' = FirstInterior /\ y' = FirstInterior
    /\ pc' = "point"
    /\ hist' = [hist EXCEPT !.log = Append(@, "copy"), !.visited = {},
                            !.pinMoved = {}, !.violation = <<>>]
    /\ UNCHANGED <<soa, soaFixed, rng, evalOrder, ticks, steps, linknr, pointpos>>

\* Line 221.
BeginPoint ==
    /\ pc = "point"
    /\ pointpos' = pointGrid[grid(x, y)].pos
    /\ linknr' = 0
    /\ pc' = "link"
    /\ UNCHANGED <<pointGrid, soa, soaFixed, magic, rng, evalOrder, ticks, steps,
                   i, x, y, hist>>

\* The isfinite test of line 226 left out.
StretchedAnyDistance(distance, restlength) == distance > restlength
\* The correction with its sign reversed: the points are pushed apart.
CorrectionPush(distance, restlength, dir) ==
    LET extra == FSub(FDiv(distance, restlength), Unit)
    IN  V2Scale(FNeg(half), V2Scale(extra, dir))

\* Lines 226-237: whether the link is corrected, and by how much.
Stretched(distance, restlength) == IsFinite(distance) /\ distance > restlength
Correction(distance, restlength, dir) ==
    LET extra == FSub(FDiv(distance, restlength), Unit)
    IN  V2Scale(half, V2Scale(extra, dir))

\* Lines 224-237: one link of the point (x, y).
ApplyLink ==
    /\ pc = "link"
    /\ linknr < 4
    /\ LET p == grid(x, y)
           n == grid(NeighbourX(x, linknr), NeighbourY(y, linknr))
           npos == pointGrid[n].pos
           dir == V2Sub(npos, pointpos)
           distance == Length(dir)
           restlength == pointGrid[p].restlength[linknr]
           move == Correction(distance, restlength, dir)
       IN  /\ IF Stretched(distance, restlength)
              THEN /\ pointpos' = V2Add(pointpos, move)
                   /\ pointGrid' = [pointGrid EXCEPT ![n].pos = V2Sub(npos, move)]
              ELSE UNCHANGED <<pointpos, pointGrid>>
           /\ hist' = [hist EXCEPT !.link =
                          [kind |-> "link", p |-> p, n |-> n, c |-> linknr,
                           pointpos |-> pointpos, npos |-> npos,
                           restlength |-> restlength]]
    /\ linknr' = linknr + 1
    /\ UNCHANGED <<soa, soaFixed, magic, rng, evalOrder, pc, ticks, steps, i, x, y>>

\* Line 240 and the increments of the loops of lines 219-220.
EndPoint ==
    /\ pc = "link"
    /\ linknr = 4
    /\ pointGrid' = [pointGrid EXCEPT ![grid(x, y)].pos = pointpos]
    /\ hist' = [hist EXCEPT
                   !.visited = @ \cup {grid(x, y)},
                   !.log = IF x = LastInterior /\ y = LastInterior
                           THEN Append(@, "pass") ELSE @]
    /\ IF x < LastInterior
       THEN x' = x + 1 /\ y' = y /\ pc' = "point"
       ELSE IF y < LastInterior
            THEN x' = FirstInterior /\ y' = y + 1 /\ pc' = "point"
            ELSE x' = 0 /\ y' = y /\ pc' = "pin"
    /\ UNCHANGED <<soa, soaFixed, magic, rng, evalOrder, ticks, steps, i, linknr,
                   pointpos>>

\* The re-pin loop started at x = 1.
PinnedRowShort == {grid(px, 0) : px \in 1 .. GRIDSIZE - 1}
\* Line 245: the points the re-pin loop visits.
PinnedRow == {grid(px, 0) : px \in 0 .. GRIDSIZE - 1}

\* Lines 245-247.
PinRow(g) ==
    [p \in Points |-> IF p \in PinnedRow THEN [g[p] EXCEPT !.pos = g[p].fix] ELSE g[p]]

\* Sum over the links of the interior points of max( 0, distance - restlength ),
\* NonFinite when a distance is not finite.
LinkViolation(g, p, c) ==
    LET d == Length(V2Sub(g[grid(NeighbourX(XOf(p), c), NeighbourY(YOf(p), c))].pos,
                          g[p].pos))
    IN  IF ~IsFinite(d) THEN NonFinite
        ELSE IF d > g[p].restlength[c] THEN FSub(d, g[p].restlength[c]) ELSE 0
PointViolation(g, p) ==
    FAdd(FAdd(LinkViolation(g, p, 0), LinkViolation(g, p, 1)),
         FAdd(LinkViolation(g, p, 2), LinkViolation(g, p, 3)))
RECURSIVE RowViolation(_, _, _)
RowViolation(g, py, px) ==
    IF px > LastInterior THEN 0
    ELSE FAdd(PointViolation(g, grid(px, py)), RowViolation(g, py, px + 1))
RECURSIVE SumViolation(_, _)
SumViolation(g, py) ==
    IF py > LastInterior THEN 0
    ELSE FAdd(RowViolation(g, py, FirstInterior), SumViolation(g, py + 1))
TotalViolation(g) == SumViolation(g, FirstInterior)

\* Lines 245-247, then the increment and test of the pass loop (line 218).
RePin ==
    /\ pc = "pin"
    /\ pointGrid' = PinRow(pointGrid)
    /\ hist' = [hist EXCEPT !.log = Append(@, "pin"), !.visited = {},
                            !.pinMoved = {p \in PinnedRow : pointGrid[p].pos # pointGrid[p].fix},
                            !.violation = Append(@, TotalViolation(pointGrid'))]
    /\ i' = i + 1
    /\ IF i + 1 < Passes
       THEN x' = FirstInterior /\ y' = FirstInterior /\ pc' = "point"
       ELSE x' = 0 /\ y' = 0 /\ pc' = "save"
    /\ UNCHANGED <<soa, soaFixed, magic, rng, evalOrder, ticks, steps, linknr,
                   pointpos>>

\* Lines 251-259, then the increment and test of the sub-step loop (line 165).
SaveToSoA ==
    /\ pc = "save"
    /\ pos_x' = [p \in Points |-> pointGrid[p].pos.x]
    /\ pos_y' = [p \in Points |-> pointGrid[p].pos.y]
    /\ prev_pos_x' = [p \in Points |-> pointGrid[p].prev_pos.x]
    /\ prev_pos_y' = [p \in Points |-> pointGrid[p].prev_pos.y]
    /\ steps' = steps + 1
    /\ IF steps + 1 < SubSteps
       THEN /\ pc' = "simd"
            /\ ticks' = ticks
            /\ hist' = [EnterSubStep(hist, pointGrid) EXCEPT
                           !.log = Append(hist.log, "save"),
                           !.substeps = hist.substeps + 1,
                           !.violation = <<>>]
       ELSE /\ pc' = "idle"
            /\ ticks' = ticks + 1
            /\ hist' = [hist EXCEPT !.log = Append(@, "save"),
                                    !.substeps = @ + 1, !.violation = <<>>]
    /\ x' = 0 /\ y' = 0
    /\ UNCHANGED <<pointGrid, soaFixed, magic, rng, evalOrder, i, linknr, pointpos>>

\* ------------------------------------------------ whole sweeps, any order

\* The loop of lines 197-202 visiting the points in the given order.
RECURSIVE ScalarSweep(_, _, _, _)
ScalarSweep(g, r, order, k) ==
    IF k > Len(order)
    THEN g
    ELSE LET dr == ScalarDraws(r, evalOrder, magic)
         IN  ScalarSweep([g EXCEPT ![order[k]] = ScalarUpdate(@, dr.d, dr.wx, dr.wy)],
                         RngAfter(r, dr.calls), order, k + 1)

\* The loop of lines 168-195 visiting the vectors in the given order.
RECURSIVE SimdSweep(_, _, _, _)
SimdSweep(a, r, order, k) ==
    IF k > Len(order)
    THEN a
    ELSE SimdSweep(SimdVector(a, r, order[k]), RngAfter(r, 12), order, k + 1)

RowMajor(n) == [k \in 1 .. n |-> k - 1]
Reversed(n) == [k \in 1 .. n |-> n - k]
Vectors == 0 .. (GRIDSIZE * GRIDSIZE) \div 4 - 1

Next ==
    \/ GameInit
    \/ Tick
    \/ SimdStep
    \/ ScalarStep
    \/ CopyToGrid
    \/ BeginPoint
    \/ ApplyLink
    \/ EndPoint
    \/ RePin
    \/ SaveToSoA

Spec == Init /\ [][Next]_vars

\* ------------------------------------- the constraint passes on their own

\* Lattice states for the passes of one sub-step: the lattice Init builds with
\* one point moved, as integration and wind leave it.  A displacement of
\* NonFinite is a point whose position has exploded.
RelaxPoints == {grid(1, 1), grid(1, 0)}
Displacements ==
    {F2(Unit, 0), F2(0, Unit), F2(0, -Unit), F2(6 * Unit, 0), F2(0, 6 * Unit),
     F2(300 * Unit, 0), F2(NonFinite, NonFinite)}

Displaced(g, q, d) == [g EXCEPT ![q].pos = V2Add(@, d)]

InitRelax ==
    /\ \E seed \in Seeds : \E q \in RelaxPoints : \E d \in Displacements :
          pointGrid = Displaced(InitRestLengths(SeedGrid([p \in Points |-> GarbagePoint(0)],
                                                         seed)), q, d)
    /\ pos_x = [p \in Points |-> pointGrid[p].pos.x]
    /\ pos_y = [p \in Points |-> pointGrid[p].pos.y]
    /\ prev_pos_x = [p \in Points |-> pointGrid[p].prev_pos.x]
    /\ prev_pos_y = [p \in Points |-> pointGrid[p].prev_pos.y]
    /\ fix_x = [p \in Points |-> pointGrid[p].fix.x]
    /\ fix_y = [p \in Points |-> pointGrid[p].fix.y]
    /\ is_fixed = [p \in Points |-> pointGrid[p].fixed]
    /\ rest = StoreRest([k \in 0 .. 4 * GRIDSIZE * GRIDSIZE - 1 |-> 0], pointGrid)
    /\ magic = FAdd(MagicStart, MagicStep)
    /\ rng = 0
    /\ evalOrder = "ltr"
    /\ pc = "point"
    /\ ticks = 0
    /\ steps = 0 /\ i = 0 /\ x = FirstInterior /\ y = FirstInterior /\ linknr = 0
    /\ pointpos = F2(0, 0)
    /\ hist = [EmptyHist EXCEPT !.start = Snapshot(pointGrid),
                                !.log = <<"simd", "scalar", "copy">>,
                                !.simd = Vectors, !.scalar = Points]

NextRelax ==
    \/ BeginPoint
    \/ ApplyLink
    \/ EndPoint
    \/ RePin

SpecRelax == InitRelax /\ [][NextRelax]_vars

\* ------------------------------------------------------------ claims

Last(q) == q[Len(q)]
IsPrefix(q, full) == Len(q) <= Len(full) /\ \A k \in 1 .. Len(q) : q[k] = full[k]
RECURSIVE Times(_, _)
Times(q, n) == IF n = 0 THEN <<>> ELSE q \o Times(q, n - 1)

\* The phases of one Simulation call as the claim C1 orders them: 3 sub-steps,
\* each the integration, then 4 times a constraint pass and the re-pin.
SubStepLog == <<"simd", "scalar", "copy">> \o Times(<<"pass", "pin">>, 4) \o <<"save">>
CallLog == Times(SubStepLog, 3)
GridInterior == {q \in Points : XOf(q) \in 1 .. GRIDSIZE - 2 /\ YOf(q) \in 1 .. GRIDSIZE - 2}
LanesOf(vs) == {q \in Points : q \div 4 \in vs}

\* C1: every Simulation call runs exactly 3 sub-steps; each sub-step integrates
\* all GRIDSIZE x GRIDSIZE points and then runs exactly 4 times a constraint pass
\* over the interior points followed by the re-pin of row 0; no constraint pass
\* starts before every point of the sub-step has been integrated.
C1_SubStepProtocol ==
    /\ IsPrefix(hist.log, CallLog)
    /\ (pc = "idle" /\ ticks > 0) => (hist.log = CallLog /\ hist.substeps = 3)
    /\ pc \in {"point", "link", "pin"} =>
          (LanesOf(hist.simd) = Points /\ hist.scalar = Points)
    /\ pc = "pin" => hist.visited = GridInterior

C1_Witness ==
    /\ pc = "idle"
    /\ ticks = 1
    /\ hist.log = CallLog

\* The state a relaxation pass leaves: the re-pin of the pass has just run.
AfterPass ==
    /\ hist.log # <<>>
    /\ \/ pc = "point" /\ i > 0 /\ x = 1 /\ y = 1 /\ Last(hist.log) = "pin"
       \/ pc = "save"

\* C2: after every relaxation pass, every point of row y = 0 has its position
\* equal to its pinned position fix, whatever integration, wind or corrections
\* from row 1 did to it.
C2_PinnedAfterPass ==
    AfterPass => \A px \in 0 .. GRIDSIZE - 1 :
                    pointGrid[grid(px, 0)].pos = pointGrid[grid(px, 0)].fix

\* A pass after the first: only a correction from row 1 can have moved the point.
C2_Witness ==
    /\ AfterPass
    /\ i >= 2
    /\ hist.pinMoved # {}
    /\ \A q \in hist.pinMoved : pointGrid[q].pos = pointGrid[q].fix

\* One Verlet step of a point from its state s at the start of the sub-step,
\* with the impulse (wx, wy) when the draw d is below the wind threshold.
VerletOnce(s, dr) ==
    LET px == FAdd(FAdd(s.pos.x, FSub(s.pos.x, s.prev_pos.x)), 0)
        py == FAdd(FAdd(s.pos.y, FSub(s.pos.y, s.prev_pos.y)), Dec(3, 1000))
    IN  IF dr.d < Dec(3, 100)
        THEN F2(FAdd(px, dr.wx), FAdd(py, dr.wy))
        ELSE F2(px, py)

EnteringPasses == pc = "point" /\ i = 0 /\ x = 1 /\ y = 1 /\ Last(hist.log) = "copy"

\* C8: the state that enters the constraint passes is exactly one Verlet step
\* from the state at the start of the sub-step, for every point once: prev_pos
\* is the old pos, pos is old pos + (old pos - old prev_pos) + gravity, plus the
\* impulse for the points whose draw is below the threshold; the SIMD loop
\* integrates every 4-point vector once and none twice.
C8_OneVerletStep ==
    EnteringPasses =>
        /\ hist.simd = Vectors
        /\ ~hist.simdTwice
        /\ \A q \in Points :
              /\ pointGrid[q].prev_pos = hist.start[q].pos
              /\ pointGrid[q].pos = VerletOnce(hist.start[q], hist.draws[q])

\* A moving, unpinned point that received an impulse.
C8_Witness ==
    /\ EnteringPasses
    /\ \E q \in Points :
          /\ YOf(q) > 0
          /\ hist.draws[q].d < Dec(3, 100)
          /\ hist.start[q].pos # hist.start[q].prev_pos
          /\ pointGrid[q].pos = VerletOnce(hist.start[q], hist.draws[q])

NoWind == ~hist.scalarWind /\ \A q \in Points : hist.draws[q].d >= Dec(3, 100)
BothIntegrated == pc = "copy"

C10_NeighboursInGrid ==
    /\ \A q \in RestLoopPoints : \A c \in Links :
          InGrid(NeighbourX(XOf(q), c), NeighbourY(YOf(q), c))
    /\ pc \in {"point", "link"} =>
          /\ InGrid(x, y)
          /\ \A c \in Links : InGrid(NeighbourX(x, c), NeighbourY(y, c))
    /\ hist.link.kind = "link" =>
          /\ hist.link.p \in GridInterior
          /\ XOf(hist.link.n) = XOf(hist.link.p) + xoffset[hist.link.c + 1]
          /\ YOf(hist.link.n) = YOf(hist.link.p) + yoffset[hist.link.c + 1]

\* The link of (1, 1) up to the pinned row has been processed.
C10_Witness ==
    /\ pc = "link"
    /\ hist.link.kind = "link"
    /\ hist.link.p = grid(1, 1)
    /\ hist.link.c = 3
    /\ hist.link.n = grid(1, 0)

InitDone == pc = "idle" /\ ticks = 0

\* C3: after Init, for every point of the grid, border points included, and
\* every link whose neighbour is in the grid, restlength is 1.15 times the
\* distance between the seeded positions of the point and the neighbour.
C3_RestLengthsEverywhere ==
    InitDone => \A q \in Points : \A c \in Links :
        InGrid(NeighbourX(XOf(q), c), NeighbourY(YOf(q), c)) =>
            pointGrid[q].restlength[c] =
                FMul(Length(V2Sub(pointGrid[q].pos,
                                  pointGrid[grid(NeighbourX(XOf(q), c),
                                                 NeighbourY(YOf(q), c))].pos)),
                     Dec(115, 100))

\* C4: the SoA arrays built by Init hold every per-point value of the Point
\* records at a place of its own: pos, prev_pos, fix, fixed at the point's
\* index, and each of the 4 rest lengths at the index of the point and link.
C4_SoALossless ==
    InitDone => \A q \in Points :
        /\ pointGrid[q].pos = F2(pos_x[q], pos_y[q])
        /\ pointGrid[q].prev_pos = F2(prev_pos_x[q], prev_pos_y[q])
        /\ pointGrid[q].fix = F2(fix_x[q], fix_y[q])
        /\ pointGrid[q].fixed = is_fixed[q]
        /\ \A c \in Links : rest[RestIndex(q, c)] = pointGrid[q].restlength[c]

PosOf(g) == [q \in Points |-> <<g[q].pos, g[q].prev_pos>>]

\* C7: one integration sweep gives every point the same pos and prev_pos in
\* whatever order the points (the vectors, for the SIMD loop) are visited.
C7_OrderIndependent ==
    /\ (pc = "scalar" /\ x = 0 /\ y = 0) =>
          PosOf(ScalarSweep(pointGrid, rng, Reversed(GRIDSIZE * GRIDSIZE), 1))
              = PosOf(ScalarSweep(pointGrid, rng, RowMajor(GRIDSIZE * GRIDSIZE), 1))
    /\ (pc = "simd" /\ x = 0 /\ y = 0) =>
          SimdSweep(Arrays, rng, Reversed(Cardinality(Vectors)), 1)
              = SimdSweep(Arrays, rng, RowMajor(Cardinality(Vectors)), 1)

\* The link processed last, as ApplyLink found it and as it left it.
LinkDone == pc = "link" /\ linknr > 0 /\ hist.link.kind = "link"
FoundDistance == Length(V2Sub(hist.link.npos, hist.link.pointpos))
LeftDistance == Length(V2Sub(pointGrid[hist.link.n].pos, pointpos))

\* C9: a link changes the point or the neighbour only when their distance is
\* finite and strictly greater than the point's rest length for the link; when
\* the distance is non-finite, or at most the rest length, both are unchanged.
C9_LinkSkipped ==
    LinkDone =>
        (~(IsFinite(FoundDistance) /\ FoundDistance > hist.link.restlength) =>
            /\ pointpos = hist.link.pointpos
            /\ pointGrid[hist.link.n].pos = hist.link.npos)

\* A link skipped because the distance is not finite.
C9_Witness ==
    /\ LinkDone
    /\ ~IsFinite(FoundDistance)
    /\ pointpos = hist.link.pointpos
    /\ pointGrid[hist.link.n].pos = hist.link.npos

\* C6: with no wind and no gravity acting, the total rest-length violation
\* never increases from one relaxation pass to the next within a sub-step.
C6_ViolationNonIncreasing ==
    \A k \in 1 .. Len(hist.violation) - 1 :
        (IsFinite(hist.violation[k]) /\ IsFinite(hist.violation[k + 1])) =>
            hist.violation[k + 1] <= hist.violation[k]

\* C6, amended: the correction of a link whose distance is finite, above the
\* rest length and at most twice the rest length never lengthens that link.
C6_CorrectedLinkNoLonger ==
    LinkDone =>
        ((/\ IsFinite(FoundDistance)
          /\ FoundDistance > hist.link.restlength
          /\ FoundDistance <= 2 * hist.link.restlength)
            => (IsFinite(LeftDistance) /\ LeftDistance <= FoundDistance))

\* A stretched link that its correction shortened.
C6_Witness ==
    /\ LinkDone
    /\ FoundDistance > hist.link.restlength
    /\ FoundDistance <= 2 * hist.link.restlength
    /\ LeftDistance < FoundDistance

====
